---- MODULE Spec2Model ----
(***************************************************************************)
(* Model of l5kit/rasterization/satellite_rasterizer.py:                   *)
(* _load_image_and_metadata and the SatelliteRasterizer class.             *)
(*                                                                         *)
(* Numbers.  Metric and pixel quantities are exact rationals <<n, d>>      *)
(* (d > 0, lowest terms); <<1, 0>> is the float +inf.  Angles are counted  *)
(* in quarter turns (1 = pi/2 rad) so that cos and sin are exact.  The     *)
(* float32 values of the returned image are records [m, e] standing for    *)
(* m * 2^(-e) with a 24 bit mantissa, rounded to nearest-even as numpy     *)
(* does.                                                                   *)
(***************************************************************************)
EXTENDS Integers, Sequences, FiniteSets, TLC

(***************************************************************************)
(* Bounds of the model.                                                    *)
(***************************************************************************)
\* the ego's x-coordinate ranges over 1..MaxCoord
MaxCoord == 1

Threads == {"t1", "t2"}

(***************************************************************************)
(* Rational arithmetic (numpy float64 arithmetic on the small exact values *)
(* the model uses).                                                        *)
(***************************************************************************)
Abs(n) == IF n < 0 THEN -n ELSE n

RECURSIVE Gcd(_, _)
Gcd(a, b) == IF b = 0 THEN a ELSE Gcd(b, a % b)

Rat(n, d) ==
    LET s == IF d < 0 THEN -1 ELSE 1
        g == Gcd(Abs(n), Abs(d))
    IN  <<(s * n) \div g, (s * d) \div g>>

R(n) == <<n, 1>>
Inf == <<1, 0>>
RAdd(a, b) ==
    IF a[2] = 1 /\ b[2] = 1 THEN <<a[1] + b[1], 1>>
    ELSE Rat(a[1] * b[2] + b[1] * a[2], a[2] * b[2])
RNeg(a) == <<-a[1], a[2]>>
RSub(a, b) == RAdd(a, RNeg(b))
RMul(a, b) ==
    IF a[1] = 0 \/ b[1] = 0 THEN <<0, 1>>
    ELSE IF a[2] = 1 /\ b[2] = 1 THEN <<a[1] * b[1], 1>>
    ELSE Rat(a[1] * b[1], a[2] * b[2])
RDiv(a, b) == Rat(a[1] * b[2], a[2] * b[1])
\* 1 / x as numpy computes it: 1 / inf = 0
Recip(a) == IF a[2] = 0 THEN R(0) ELSE Rat(a[2], a[1])
Floor(a) == a[1] \div a[2]

\* cos and sin of k quarter turns
Cos(k) == LET q == k % 4 IN IF q = 0 THEN 1 ELSE IF q = 2 THEN -1 ELSE 0
Sin(k) == LET q == k % 4 IN IF q = 1 THEN 1 ELSE IF q = 3 THEN -1 ELSE 0

(***************************************************************************)
(* float32                                                                 *)
(***************************************************************************)
Two23 == 2^23
Two24 == 2^24
F32Zero == [m |-> 0, e |-> 0]

\* round-to-nearest-even of (q + r/D) for 0 <= r < D, then renormalised to
\* a 24 bit mantissa with binary exponent -e
F32Round(q, r, D, e) ==
    LET up == (2 * r > D) \/ (2 * r = D /\ q % 2 = 1)
        qq == IF up THEN q + 1 ELSE q
    IN  IF qq = Two24 THEN [m |-> Two23, e |-> e - 1] ELSE [m |-> qq, e |-> e]

\* the float32 nearest to n / 2^k for an integer 0 <= n < 2^24
RECURSIVE F32Of(_, _)
F32Of(n, k) ==
    IF n = 0 THEN F32Zero
    ELSE IF n < Two23 THEN F32Of(2 * n, k + 1)
    ELSE [m |-> n, e |-> k]

\* long division: v * 2^e = q * 255 + r, carried on until q has 24 bits
RECURSIVE F32DivStep(_, _, _)
F32DivStep(q, r, e) ==
    IF q >= Two23 THEN F32Round(q, r, 255, e)
    ELSE F32DivStep(2 * q + (IF 2 * r >= 255 THEN 1 ELSE 0), (2 * r) % 255, e + 1)

\* float32(v) / 255 for an integer 0 <= v <= 255
F32Div255(v) == IF v = 0 THEN F32Zero ELSE F32DivStep(v \div 255, v % 255, 0)

\* x * 255 in float32: the exact product 255 * m has up to 32 bits, of which
\* s are dropped; it is formed from the high and low parts of m to stay
\* within the integers
F32Mul255(x) ==
    IF x.m = 0 THEN F32Zero
    ELSE LET s == IF 255 * (x.m \div 256) + ((255 * (x.m % 256)) \div 256) >= Two23
                  THEN 8 ELSE 7
             D == 2^s
             a == x.m \div D
             b == x.m % D
         IN  F32Round(255 * a + ((255 * b) \div D), (255 * b) % D, D, x.e - s)

\* astype(np.uint8) of a float32 in [0, 256): truncation toward zero
F32Trunc(x) == IF x.m = 0 \/ x.e > 24 THEN 0 ELSE x.m \div (2^x.e)

\* np.round of a float32 in [0, 256): nearest integer, ties to even
F32RoundInt(x) ==
    IF x.m = 0 \/ x.e > 24 THEN 0
    ELSE LET D == 2^x.e
             q == x.m \div D
             r == x.m % D
         IN  IF (2 * r > D) \/ (2 * r = D /\ q % 2 = 1) THEN q + 1 ELSE q

\* 0 <= x <= 1
F32InUnit(x) == x.m = 0 \/ x.e >= 24 \/ (x.e = 23 /\ x.m = Two23)

(***************************************************************************)
(* Vectors and matrices of rationals.                                      *)
(***************************************************************************)
RECURSIVE Dot(_, _, _)
\* sum over j in 1..n of a[j] * b[j]
Dot(a, b, n) == IF n = 0 THEN R(0) ELSE RAdd(Dot(a, b, n - 1), RMul(a[n], b[n]))

Col3(B, j) == <<B[1][j], B[2][j], B[3][j]>>

\* the 3 x 3 product A @ B
MatMul3(A, B) ==
    LET E(i, j) == Dot(A[i], Col3(B, j), 3)
    IN  <<<<E(1, 1), E(1, 2), E(1, 3)>>,
          <<E(2, 1), E(2, 2), E(2, 3)>>,
          <<E(3, 1), E(3, 2), E(3, 3)>>>>

\* the two indices of 1..3 other than i
Others(i) == IF i = 1 THEN <<2, 3>> ELSE IF i = 2 THEN <<1, 3>> ELSE <<1, 2>>

Cofactor(A, i, j) ==
    LET r == Others(i)
        c == Others(j)
        minor == RSub(RMul(A[r[1]][c[1]], A[r[2]][c[2]]),
                      RMul(A[r[1]][c[2]], A[r[2]][c[1]]))
    IN  IF (i + j) % 2 = 0 THEN minor ELSE RNeg(minor)

Det3(A) ==
    RAdd(RAdd(RMul(A[1][1], Cofactor(A, 1, 1)), RMul(A[1][2], Cofactor(A, 1, 2))),
         RMul(A[1][3], Cofactor(A, 1, 3)))

\* np.linalg.inv of a 3 x 3 matrix: raises LinAlgError on a singular matrix
linalg_inv(A) ==
    LET det == Det3(A)
    IN  IF det[1] = 0
        THEN [raised |-> "LinAlgError", value |-> <<>>]
        ELSE LET E(i, j) == RDiv(Cofactor(A, j, i), det)
             IN  [raised |-> "",
                  value |-> <<<<E(1, 1), E(1, 2), E(1, 3)>>,
                              <<E(2, 1), E(2, 2), E(2, 3)>>,
                              <<E(3, 1), E(3, 2), E(3, 3)>>>>]

\* the integer square root of a perfect square
ISqrt(n) == CHOOSE k \in 0..n : k * k = n

\* np.linalg.norm of a vector of n rationals whose norm is rational
linalg_norm(v, n) ==
    LET sq == Dot(v, v, n) IN Rat(ISqrt(sq[1]), ISqrt(sq[2]))

(***************************************************************************)
(* l5kit.geometry and l5kit.rasterization.satellite_image: the functions   *)
(* the rasterizer imports.                                                 *)
(***************************************************************************)
\* rotation about z by k quarter turns
yaw_as_rotation33(k) ==
    <<<<R(Cos(k)), R(-Sin(k)), R(0)>>,
      <<R(Sin(k)), R(Cos(k)), R(0)>>,
      <<R(0), R(0), R(1)>>>>

\* atan2(rot[1, 0], rot[0, 0]) in quarter turns, in (-2, 2]
rotation33_as_yaw(rot) ==
    LET c == rot[1][1][1]
        s == rot[2][1][1]
    IN  IF c = 1 THEN 0 ELSE IF s = 1 THEN 1 ELSE IF c = -1 THEN 2 ELSE -1

\* matrix @ (point, 1), cut to the dimension of the point
transform_point(point, transf_matrix) ==
    LET n == Len(point)
        ext == Append(point, R(1))
        E(i) == Dot(transf_matrix[i], ext, n + 1)
    IN  IF n = 2 THEN <<E(1), E(2)>> ELSE <<E(1), E(2), E(3)>>

\* world -> raster pixels: translate by -ego, rotate by -yaw, scale metres to
\* pixels, move the ego to raster_size * ego_center
world_to_image_pixels_matrix(image_shape, pixel_size_m, ego_translation_m, ego_yaw_rad, ego_center_in_image_ratio) ==
    LET translate ==
            <<<<R(1), R(0), RNeg(ego_translation_m[1])>>,
              <<R(0), R(1), RNeg(ego_translation_m[2])>>,
              <<R(0), R(0), R(1)>>>>
        world_to_ego_in_2d == MatMul3(yaw_as_rotation33(-ego_yaw_rad), translate)
        world_to_image_scale ==
            <<<<Recip(pixel_size_m[1]), R(0), R(0)>>,
              <<R(0), Recip(pixel_size_m[2]), R(0)>>,
              <<R(0), R(0), R(1)>>>>
        image_to_ego_center ==
            <<<<R(1), R(0), RMul(ego_center_in_image_ratio[1], R(image_shape[1]))>>,
              <<R(0), R(1), RMul(ego_center_in_image_ratio[2], R(image_shape[2]))>>,
              <<R(0), R(0), R(1)>>>>
    IN  MatMul3(image_to_ego_center, MatMul3(world_to_image_scale, world_to_ego_in_2d))

BlackPixel == <<0, 0, 0>>

\* the pixel of sat_image holding the point (x, y); black outside the image
SamplePixel(sat_image, x, y) ==
    LET ix == Floor(x)
        iy == Floor(y)
    IN  IF iy >= 0 /\ iy < Len(sat_image) /\ ix >= 0 /\ ix < Len(sat_image[1])
        THEN sat_image[iy + 1][ix + 1]
        ELSE BlackPixel

\* a crop_size = (width, height) image around sat_pixel_translation, rotated by
\* yaw, one output pixel covering pixel_size / sat_pixel_scale satellite pixels;
\* every output pixel takes the satellite pixel under its centre
get_sat_image_crop_scaled(sat_image, crop_size, sat_pixel_translation, yaw, pixel_size, sat_pixel_scale, interpolation) ==
    LET half == <<1, 2>>
        su == RDiv(pixel_size[1], sat_pixel_scale)
        sv == RDiv(pixel_size[2], sat_pixel_scale)
        u(c) == RMul(su, RSub(RSub(R(c), half), RMul(R(crop_size[1]), half)))
        v(r) == RMul(sv, RSub(RSub(R(r), half), RMul(R(crop_size[2]), half)))
        x(c, r) == RAdd(sat_pixel_translation[1],
                        RSub(RMul(R(Cos(yaw)), u(c)), RMul(R(Sin(yaw)), v(r))))
        y(c, r) == RAdd(sat_pixel_translation[2],
                        RAdd(RMul(R(Sin(yaw)), u(c)), RMul(R(Cos(yaw)), v(r))))
    IN  [r \in 1..crop_size[2] |->
            [c \in 1..crop_size[1] |-> SamplePixel(sat_image, x(c, r), y(c, r))]]

(***************************************************************************)
(* Images.  An image is a sequence of rows, a row a sequence of pixels, a  *)
(* pixel a triple of channel values.                                       *)
(***************************************************************************)
\* im[..., ::-1]
ReverseChannels(im) ==
    [i \in 1..Len(im) |-> [j \in 1..Len(im[i]) |-> <<im[i][j][3], im[i][j][2], im[i][j][1]>>]]

\* im[::-1]
FlipRows(im) == [i \in 1..Len(im) |-> im[Len(im) + 1 - i]]

\* im[:, ::-1]
FlipCols(im) == [i \in 1..Len(im) |-> [j \in 1..Len(im[i]) |-> im[i][Len(im[i]) + 1 - j]]]

\* im.astype(np.float32) / 255
Normalize(im) ==
    [i \in 1..Len(im) |-> [j \in 1..Len(im[i]) |-> [c \in 1..3 |-> F32Div255(im[i][j][c])]]]

(***************************************************************************)
(* _load_image_and_metadata                                                *)
(***************************************************************************)
\* os.path.splitext(image_key)[0] + ".json"; a key is <<stem, extension>>
MetadataKey(image_key) == <<image_key[1], ".json">>

\* DataManager.require: the local path of a key, or FileNotFoundError
require(data_manager, key) ==
    IF key \in data_manager.files
    THEN [raised |-> "", path |-> key]
    ELSE [raised |-> "FileNotFoundError", path |-> <<>>]

\* cv2.imread: the BGR pixels of the file, or None (here <<>>) when the file
\* cannot be decoded
imread(data_manager, path) ==
    IF data_manager.decodable THEN data_manager.pixels ELSE <<>>

load_image_and_metadata(image_key, data_manager) ==
    LET image_metadata_key == MetadataKey(image_key)
        image_path == require(data_manager, image_key)
        image_metadata_path == require(data_manager, image_metadata_key)
        bgr == imread(data_manager, image_path.path)
        fail(kind) == [raised |-> kind, image |-> <<>>, metadata |-> <<>>]
    IN  IF image_path.raised # "" THEN fail(image_path.raised)
        ELSE IF image_metadata_path.raised # "" THEN fail(image_metadata_path.raised)
        \* None[..., ::-1] raises before the "image is None" test is reached
        ELSE IF bgr = <<>> THEN fail("TypeError")
        \* json.load of an invalid file
        ELSE IF ~data_manager.json_valid THEN fail("JSONDecodeError")
        ELSE [raised |-> "", image |-> ReverseChannels(bgr),
              metadata |-> data_manager.metadata]

(***************************************************************************)
(* SatelliteRasterizer                                                     *)
(***************************************************************************)
\* (1 / norm(map_to_sat[0, 0:3]) + 1 / norm(map_to_sat[1, 0:3])) / 2
MapPixelScale(map_to_sat) ==
    RDiv(RAdd(Recip(linalg_norm(map_to_sat[1], 3)), Recip(linalg_norm(map_to_sat[2], 3))), R(2))

SatelliteRasterizer_init(raster_size, pixel_size, ego_center, map_im, map_to_sat, interpolation) ==
    [raster_size |-> raster_size,
     pixel_size |-> pixel_size,
     ego_center |-> ego_center,
     map_im |-> map_im,
     map_to_sat |-> map_to_sat,
     interpolation |-> interpolation,
     map_pixel_scale |-> MapPixelScale(map_to_sat)]

\* ChoosePose reading the oldest frame of the history instead of the first
ChoosePoseLastFrame(history_frames, agent) ==
    LET last == history_frames[Len(history_frames)]
    IN  IF agent = <<>>
        THEN [ego_translation |-> last.ego_translation,
              ego_yaw |-> rotation33_as_yaw(last.ego_rotation)]
        ELSE [ego_translation |-> Append(agent[1].centroid, last.ego_translation[3]),
              ego_yaw |-> agent[1].yaw]

\* ChoosePose giving an agent the elevation 0 instead of the ego's
ChoosePoseNoElevation(history_frames, agent) ==
    IF agent = <<>>
    THEN [ego_translation |-> history_frames[1].ego_translation,
          ego_yaw |-> rotation33_as_yaw(history_frames[1].ego_rotation)]
    ELSE [ego_translation |-> Append(agent[1].centroid, R(0)),
          ego_yaw |-> agent[1].yaw]

\* the pose of the call; agent is <<>> (None) or <<record>>
ChoosePose(history_frames, agent) ==
    IF agent = <<>>
    THEN [ego_translation |-> history_frames[1].ego_translation,
          ego_yaw |-> rotation33_as_yaw(history_frames[1].ego_rotation)]
    ELSE [ego_translation |-> Append(agent[1].centroid, history_frames[1].ego_translation[3]),
          ego_yaw |-> agent[1].yaw]

BuildTransform(self, ego_translation, ego_yaw) ==
    world_to_image_pixels_matrix(self.raster_size, self.pixel_size, ego_translation, ego_yaw, self.ego_center)

\* the pixel the ego is anchored at, raster_size * ego_center
CenterPixelEgoPoint(self) ==
    <<RMul(R(self.raster_size[1]), self.ego_center[1]),
      RMul(R(self.raster_size[2]), self.ego_center[2])>>

\* np.asarray(self.raster_size) * (0.5, 0.5)
CenterPixel(self) ==
    <<RMul(R(self.raster_size[1]), <<1, 2>>), RMul(R(self.raster_size[2]), <<1, 2>>)>>

\* transform_point(np.append(world_translation, ego_translation[2]), self.map_to_sat)
SatTranslation(self, world_translation, ego_translation) ==
    transform_point(Append(world_translation, ego_translation[3]), self.map_to_sat)

\* CropArgs passing the yaw as it is
CropArgsYawNotNegated(self, sat_translation, ego_yaw) ==
    [sat_image |-> self.map_im,
     crop_size |-> self.raster_size,
     sat_pixel_translation |-> sat_translation,
     yaw |-> ego_yaw,
     pixel_size |-> self.pixel_size,
     sat_pixel_scale |-> self.map_pixel_scale,
     interpolation |-> self.interpolation]

\* the arguments of the call of get_sat_image_crop_scaled
CropArgs(self, sat_translation, ego_yaw) ==
    [sat_image |-> self.map_im,
     crop_size |-> self.raster_size,
     sat_pixel_translation |-> sat_translation,
     yaw |-> -ego_yaw,
     pixel_size |-> self.pixel_size,
     sat_pixel_scale |-> self.map_pixel_scale,
     interpolation |-> self.interpolation]

Crop(a) ==
    get_sat_image_crop_scaled(a.sat_image, a.crop_size, a.sat_pixel_translation, a.yaw, a.pixel_size, a.sat_pixel_scale, a.interpolation)

\* FlipAndNormalize reversing the columns instead of the rows
FlipAndNormalizeColumns(sat_im) == Normalize(FlipCols(sat_im))

\* sat_im[::-1].astype(np.float32) / 255
FlipAndNormalize(sat_im) == Normalize(FlipRows(sat_im))

\* one whole call of rasterize on the engine self
rasterize(self, history_frames, history_agents, agent) ==
    LET pose == ChoosePose(history_frames, agent)
        world_to_image_space == BuildTransform(self, pose.ego_translation, pose.ego_yaw)
        inv == linalg_inv(world_to_image_space)
        world_translation == transform_point(CenterPixel(self), inv.value)
        sat_translation == SatTranslation(self, world_translation, pose.ego_translation)
        sat_im == Crop(CropArgs(self, sat_translation, pose.ego_yaw))
    IN  IF inv.raised # ""
        THEN [raised |-> inv.raised, image |-> <<>>]
        ELSE [raised |-> "", image |-> FlipAndNormalize(sat_im)]

\* to_rgb rounding to the nearest integer instead of truncating
to_rgbRounded(in_im) ==
    [i \in 1..Len(in_im) |-> [j \in 1..Len(in_im[i]) |->
        [c \in 1..3 |-> F32RoundInt(F32Mul255(in_im[i][j][c]))]]]

\* (in_im * 255).astype(np.uint8)
to_rgb(in_im) ==
    [i \in 1..Len(in_im) |-> [j \in 1..Len(in_im[i]) |->
        [c \in 1..3 |-> F32Trunc(F32Mul255(in_im[i][j][c]))]]]

(***************************************************************************)
(* Inputs: the stored satellite image and calibrations, the constructor    *)
(* arguments, the histories and the arrays handed to to_rgb.               *)
(***************************************************************************)
MapSize == <<8, 6>>

\* the stored file, in cv2's BGR order; every pixel differs from every other
SatFileBGR ==
    [y \in 1..MapSize[2] |-> [x \in 1..MapSize[1] |->
        <<200 + y, 100 + x, x + MapSize[1] * (y - 1)>>]]

ImageKey == <<"maps/satellite", ".png">>

\* one satellite pixel per metre
CalibIdentity ==
    <<<<R(1), R(0), R(0), R(0)>>, <<R(0), R(1), R(0), R(0)>>,
      <<R(0), R(0), R(1), R(0)>>, <<R(0), R(0), R(0), R(1)>>>>

\* two satellite pixels per metre, shifted by one pixel
CalibScaled ==
    <<<<R(2), R(0), R(0), R(1)>>, <<R(0), R(2), R(0), R(0)>>,
      <<R(0), R(0), R(1), R(0)>>, <<R(0), R(0), R(0), R(1)>>>>

\* one satellite pixel per metre, the elevation leaning into the image x
CalibTilted ==
    <<<<<<3, 5>>, R(0), <<4, 5>>, R(1)>>, <<R(0), R(1), R(0), R(0)>>,
      <<R(0), R(0), R(1), R(0)>>, <<R(0), R(0), R(0), R(1)>>>>

Calibrations == {CalibIdentity, CalibScaled, CalibTilted}

DataManagers ==
    {[files |-> f, decodable |-> d, json_valid |-> v, pixels |-> SatFileBGR,
      metadata |-> [ecef_to_image |-> m]] :
        f \in SUBSET {ImageKey, MetadataKey(ImageKey)}, d \in BOOLEAN, v \in BOOLEAN,
        m \in Calibrations}

Half == <<1, 2>>
Quarter == <<1, 4>>

\* constructor arguments other than the image; the last one has an infinite
\* pixel size, whose world-to-raster transform is singular
Configs ==
    {[raster_size |-> <<2, 2>>, pixel_size |-> <<R(1), R(1)>>, ego_center |-> <<Half, Half>>,
      map_to_sat |-> CalibIdentity, interpolation |-> "INTER_LINEAR"],
     [raster_size |-> <<4, 2>>, pixel_size |-> <<Half, Half>>, ego_center |-> <<Quarter, Half>>,
      map_to_sat |-> CalibIdentity, interpolation |-> "INTER_LINEAR"],
     [raster_size |-> <<2, 2>>, pixel_size |-> <<R(1), R(1)>>, ego_center |-> <<Quarter, Half>>,
      map_to_sat |-> CalibScaled, interpolation |-> "INTER_NEAREST"],
     [raster_size |-> <<2, 4>>, pixel_size |-> <<R(1), Half>>, ego_center |-> <<Half, Quarter>>,
      map_to_sat |-> CalibTilted, interpolation |-> "INTER_LINEAR"],
     [raster_size |-> <<2, 2>>, pixel_size |-> <<Inf, R(1)>>, ego_center |-> <<Half, Half>>,
      map_to_sat |-> CalibIdentity, interpolation |-> "INTER_LINEAR"]}

Frame(x, y, z, k) ==
    [ego_translation |-> <<R(x), R(y), R(z)>>, ego_rotation |-> yaw_as_rotation33(k)]

\* a history of two frames, the most recent first; the older frame differs
\* from it in position, elevation and heading
History(x, z, k) == <<Frame(x, 2, z, k), Frame(x - 1, 3, z + 1, k + 1)>>

\* every heading of the four quarter turns, two elevations
Histories == {History(x, z, k) : x \in 1..MaxCoord, z \in 0..1, k \in (-1)..2}

\* the agents of each frame: at the most recent frame one agent that sits on
\* the ego pose and one that does not
AgentsOf(h) ==
    LET ego == h[1].ego_translation
        yaw == rotation33_as_yaw(h[1].ego_rotation)
    IN  <<{[centroid |-> <<ego[1], ego[2]>>, yaw |-> yaw],
           [centroid |-> <<RAdd(ego[1], Half), RSub(ego[2], R(1))>>, yaw |-> yaw + 1]},
          {[centroid |-> <<h[2].ego_translation[1], R(1)>>, yaw |-> yaw - 1]}>>

\* arrays for to_rgb that are no normalized 8-bit image: 1/2, 1, 0 and
\* 1/4, 3/4, 1/8
SyntheticImages ==
    {<<<<<<F32Of(1, 1), F32Of(1, 0), F32Of(0, 0)>>>>>>,
     <<<<<<F32Of(1, 2), F32Of(3, 2), F32Of(1, 3)>>>>>>}

(***************************************************************************)
(* State                                                                   *)
(***************************************************************************)
VARIABLES
    loaded,                 \* <<>> or <<the outcome of the last _load_image_and_metadata>>
    engine,                 \* <<>> or <<the SatelliteRasterizer object>>
    ctor,                   \* <<>> or <<the arguments __init__ was called with>>
    history_frames,         \* the history handed to every rasterize call
    history_agents,
    pc,                     \* per thread: where its call stands
    agent,                  \* per thread: the agent argument, <<>> for None
    ego_translation,        \* per thread: the locals of rasterize
    ego_yaw,
    world_to_image_space,
    world_translation,
    sat_translation,
    sat_im,
    crop_calls,             \* per thread: the calls of the crop primitive it made
    ret,                    \* per thread: what the call returned or raised
    rgb_in,                 \* per thread: the argument and result of to_rgb
    rgb_out,
    failed_before           \* per thread: an earlier rasterize call of it raised

locals == <<agent, ego_translation, ego_yaw, world_to_image_space, world_translation, sat_translation, sat_im, crop_calls, ret, rgb_in, rgb_out>>

vars == <<loaded, engine, ctor, history_frames, history_agents, pc, locals, failed_before>>

self == engine[1]

NoReturn == [raised |-> "", image |-> <<>>]

Init ==
    /\ loaded = <<>>
    /\ engine = <<>>
    /\ ctor = <<>>
    /\ history_frames \in Histories
    /\ history_agents = AgentsOf(history_frames)
    /\ pc = [t \in Threads |-> "idle"]
    /\ agent = [t \in Threads |-> <<>>]
    /\ ego_translation = [t \in Threads |-> <<>>]
    /\ ego_yaw = [t \in Threads |-> 0]
    /\ world_to_image_space = [t \in Threads |-> <<>>]
    /\ world_translation = [t \in Threads |-> <<>>]
    /\ sat_translation = [t \in Threads |-> <<>>]
    /\ sat_im = [t \in Threads |-> <<>>]
    /\ crop_calls = [t \in Threads |-> <<>>]
    /\ ret = [t \in Threads |-> NoReturn]
    /\ rgb_in = [t \in Threads |-> <<>>]
    /\ rgb_out = [t \in Threads |-> <<>>]
    /\ failed_before = [t \in Threads |-> FALSE]

(***************************************************************************)
(* Loading and construction                                                *)
(***************************************************************************)
Load ==
    /\ engine = <<>>
    /\ \E dm \in DataManagers :
          loaded' = <<[files |-> dm.files, decodable |-> dm.decodable,
                       json_valid |-> dm.json_valid,
                       result |-> load_image_and_metadata(ImageKey, dm)]>>
    /\ UNCHANGED <<engine, ctor, history_frames, history_agents, pc, locals, failed_before>>

Construct ==
    /\ engine = <<>>
    /\ loaded # <<>>
    /\ loaded[1].result.raised = ""
    /\ \E c \in Configs :
          /\ c.map_to_sat = loaded[1].result.metadata.ecef_to_image
          /\ ctor' = <<c @@ [map_im |-> loaded[1].result.image]>>
          /\ engine' = <<SatelliteRasterizer_init(c.raster_size, c.pixel_size, c.ego_center,
                             loaded[1].result.image, loaded[1].result.metadata.ecef_to_image,
                             c.interpolation)>>
    /\ UNCHANGED <<loaded, history_frames, history_agents, pc, locals, failed_before>>

(***************************************************************************)
(* rasterize, one action per step of a call.  Every read of a field of the *)
(* engine is a read of the variable engine at the time of the step.        *)
(***************************************************************************)
\* the caller enters rasterize(history_frames, history_agents, agent);
\* lines 79-86 read the arguments alone
Call(t) ==
    /\ engine # <<>>
    /\ pc[t] = "idle"
    /\ \E a \in {<<>>} \cup {<<x>> : x \in history_agents[1]} :
          LET pose == ChoosePose(history_frames, a)
          IN  /\ agent' = [agent EXCEPT ![t] = a]
              /\ ego_translation' = [ego_translation EXCEPT ![t] = pose.ego_translation]
              /\ ego_yaw' = [ego_yaw EXCEPT ![t] = pose.ego_yaw]
    /\ pc' = [pc EXCEPT ![t] = "l88"]
    /\ UNCHANGED <<loaded, engine, ctor, history_frames, history_agents,
                   world_to_image_space, world_translation, sat_translation,
                   sat_im, crop_calls, ret, rgb_in, rgb_out, failed_before>>

\* lines 88-94
Transform(t) ==
    /\ pc[t] = "l88"
    /\ world_to_image_space' =
          [world_to_image_space EXCEPT ![t] = BuildTransform(self, ego_translation[t], ego_yaw[t])]
    /\ pc' = [pc EXCEPT ![t] = "l98"]
    /\ UNCHANGED <<loaded, engine, ctor, history_frames, history_agents, agent,
                   ego_translation, ego_yaw, world_translation, sat_translation,
                   sat_im, crop_calls, ret, rgb_in, rgb_out, failed_before>>

\* Invert returning a black raster where the transform is singular
InvertBlankOnSingular(t) ==
    /\ pc[t] = "l98"
    /\ LET inv == linalg_inv(world_to_image_space[t])
       IN  IF inv.raised # ""
           THEN /\ ret' = [ret EXCEPT ![t] =
                       [raised |-> "",
                        image |-> Normalize([i \in 1..self.raster_size[2] |->
                                      [j \in 1..self.raster_size[1] |-> BlackPixel]])]]
                /\ pc' = [pc EXCEPT ![t] = "done"]
                /\ UNCHANGED world_translation
           ELSE /\ world_translation' =
                       [world_translation EXCEPT ![t] = transform_point(CenterPixel(self), inv.value)]
                /\ pc' = [pc EXCEPT ![t] = "l100"]
                /\ UNCHANGED ret
    /\ UNCHANGED <<loaded, engine, ctor, history_frames, history_agents, agent,
                   ego_translation, ego_yaw, world_to_image_space, sat_translation,
                   sat_im, crop_calls, rgb_in, rgb_out, failed_before>>

\* Invert evaluating the inverse at the ego's pixel instead of the raster centre
InvertAtEgoPoint(t) ==
    /\ pc[t] = "l98"
    /\ LET inv == linalg_inv(world_to_image_space[t])
       IN  IF inv.raised # ""
           THEN /\ ret' = [ret EXCEPT ![t] = [raised |-> inv.raised, image |-> <<>>]]
                /\ pc' = [pc EXCEPT ![t] = "raised"]
                /\ UNCHANGED world_translation
           ELSE /\ world_translation' =
                       [world_translation EXCEPT ![t] = transform_point(CenterPixelEgoPoint(self), inv.value)]
                /\ pc' = [pc EXCEPT ![t] = "l100"]
                /\ UNCHANGED ret
    /\ UNCHANGED <<loaded, engine, ctor, history_frames, history_agents, agent,
                   ego_translation, ego_yaw, world_to_image_space, sat_translation,
                   sat_im, crop_calls, rgb_in, rgb_out, failed_before>>

\* lines 98-99: np.linalg.inv raises on a singular transform, and the
\* exception leaves rasterize
Invert(t) ==
    /\ pc[t] = "l98"
    /\ LET inv == linalg_inv(world_to_image_space[t])
       IN  IF inv.raised # ""
           THEN /\ ret' = [ret EXCEPT ![t] = [raised |-> inv.raised, image |-> <<>>]]
                /\ pc' = [pc EXCEPT ![t] = "raised"]
                /\ UNCHANGED world_translation
           ELSE /\ world_translation' =
                       [world_translation EXCEPT ![t] = transform_point(CenterPixel(self), inv.value)]
                /\ pc' = [pc EXCEPT ![t] = "l100"]
                /\ UNCHANGED ret
    /\ UNCHANGED <<loaded, engine, ctor, history_frames, history_agents, agent,
                   ego_translation, ego_yaw, world_to_image_space, sat_translation,
                   sat_im, crop_calls, rgb_in, rgb_out, failed_before>>

\* line 100
Project(t) ==
    /\ pc[t] = "l100"
    /\ sat_translation' =
          [sat_translation EXCEPT ![t] = SatTranslation(self, world_translation[t], ego_translation[t])]
    /\ pc' = [pc EXCEPT ![t] = "l104"]
    /\ UNCHANGED <<loaded, engine, ctor, history_frames, history_agents, agent,
                   ego_translation, ego_yaw, world_to_image_space, world_translation,
                   sat_im, crop_calls, ret, rgb_in, rgb_out, failed_before>>

\* lines 104-112
CropCall(t) ==
    /\ pc[t] = "l104"
    /\ LET a == CropArgs(self, sat_translation[t], ego_yaw[t])
       IN  /\ crop_calls' = [crop_calls EXCEPT ![t] = Append(@, a)]
           /\ sat_im' = [sat_im EXCEPT ![t] = Crop(a)]
    /\ pc' = [pc EXCEPT ![t] = "l115"]
    /\ UNCHANGED <<loaded, engine, ctor, history_frames, history_agents, agent,
                   ego_translation, ego_yaw, world_to_image_space, world_translation,
                   sat_translation, ret, rgb_in, rgb_out, failed_before>>

\* FlipReturn reversing the rows of the shared map_im as well
FlipReturnInPlace(t) ==
    /\ pc[t] = "l115"
    /\ ret' = [ret EXCEPT ![t] = [raised |-> "", image |-> FlipAndNormalize(sat_im[t])]]
    /\ engine' = <<[self EXCEPT !.map_im = FlipRows(@)]>>
    /\ pc' = [pc EXCEPT ![t] = "done"]
    /\ UNCHANGED <<loaded, ctor, history_frames, history_agents, agent,
                   ego_translation, ego_yaw, world_to_image_space, world_translation,
                   sat_translation, sat_im, crop_calls, rgb_in, rgb_out, failed_before>>

\* lines 115-116
FlipReturn(t) ==
    /\ pc[t] = "l115"
    /\ ret' = [ret EXCEPT ![t] = [raised |-> "", image |-> FlipAndNormalize(sat_im[t])]]
    /\ pc' = [pc EXCEPT ![t] = "done"]
    /\ UNCHANGED <<loaded, engine, ctor, history_frames, history_agents, agent,
                   ego_translation, ego_yaw, world_to_image_space, world_translation,
                   sat_translation, sat_im, crop_calls, rgb_in, rgb_out, failed_before>>

(***************************************************************************)
(* to_rgb, on the image a call returned or on a synthetic array            *)
(***************************************************************************)
ToRgbOfResult(t) ==
    /\ pc[t] = "done"
    /\ rgb_in' = [rgb_in EXCEPT ![t] = ret[t].image]
    /\ rgb_out' = [rgb_out EXCEPT ![t] = to_rgb(ret[t].image)]
    /\ pc' = [pc EXCEPT ![t] = "shown"]
    /\ UNCHANGED <<loaded, engine, ctor, history_frames, history_agents, agent,
                   ego_translation, ego_yaw, world_to_image_space, world_translation,
                   sat_translation, sat_im, crop_calls, ret, failed_before>>

ToRgbOfSynthetic(t) ==
    /\ engine # <<>>
    /\ pc[t] = "idle"
    /\ \E im \in SyntheticImages :
          /\ rgb_in' = [rgb_in EXCEPT ![t] = im]
          /\ rgb_out' = [rgb_out EXCEPT ![t] = to_rgb(im)]
    /\ pc' = [pc EXCEPT ![t] = "shown"]
    /\ UNCHANGED <<loaded, engine, ctor, history_frames, history_agents, agent,
                   ego_translation, ego_yaw, world_to_image_space, world_translation,
                   sat_translation, sat_im, crop_calls, ret, failed_before>>

\* the caller is done with the outcome of its call; the locals are gone
Finish(t) ==
    /\ pc[t] \in {"done", "raised", "shown"}
    /\ failed_before' = [failed_before EXCEPT ![t] = @ \/ pc[t] = "raised"]
    /\ pc' = [pc EXCEPT ![t] = "idle"]
    /\ agent' = [agent EXCEPT ![t] = <<>>]
    /\ ego_translation' = [ego_translation EXCEPT ![t] = <<>>]
    /\ ego_yaw' = [ego_yaw EXCEPT ![t] = 0]
    /\ world_to_image_space' = [world_to_image_space EXCEPT ![t] = <<>>]
    /\ world_translation' = [world_translation EXCEPT ![t] = <<>>]
    /\ sat_translation' = [sat_translation EXCEPT ![t] = <<>>]
    /\ sat_im' = [sat_im EXCEPT ![t] = <<>>]
    /\ crop_calls' = [crop_calls EXCEPT ![t] = <<>>]
    /\ ret' = [ret EXCEPT ![t] = NoReturn]
    /\ rgb_in' = [rgb_in EXCEPT ![t] = <<>>]
    /\ rgb_out' = [rgb_out EXCEPT ![t] = <<>>]
    /\ UNCHANGED <<loaded, engine, ctor, history_frames, history_agents>>

Next ==
    \/ Load
    \/ Construct
    \/ \E t \in Threads : Call(t)
    \/ \E t \in Threads : Transform(t)
    \/ \E t \in Threads : Invert(t)
    \/ \E t \in Threads : Project(t)
    \/ \E t \in Threads : CropCall(t)
    \/ \E t \in Threads : FlipReturn(t)
    \/ \E t \in Threads : ToRgbOfResult(t)
    \/ \E t \in Threads : ToRgbOfSynthetic(t)
    \/ \E t \in Threads : Finish(t)

Spec == Init /\ [][Next]_vars

(***************************************************************************)
(* Properties                                                              *)
(***************************************************************************)
\* the engine as __init__ built it
Built ==
    SatelliteRasterizer_init(ctor[1].raster_size, ctor[1].pixel_size, ctor[1].ego_center, ctor[1].map_im, ctor[1].map_to_sat, ctor[1].interpolation)

Ended(t) == pc[t] \in {"done", "raised"}

\* C1: the pose of a call is fixed by the agent argument alone: without an
\* agent it is the ego translation of history_frames[0] and the yaw of its
\* rotation; with an agent it is the agent's centroid, the z of
\* history_frames[0]'s ego translation, and the agent's yaw.  The older frame
\* and history_agents play no part.
C1_PoseByAgentAlone ==
    \A t \in Threads :
        ego_translation[t] # <<>> =>
            IF agent[t] = <<>>
            THEN /\ ego_translation[t] = history_frames[1].ego_translation
                 /\ ego_yaw[t] = rotation33_as_yaw(history_frames[1].ego_rotation)
            ELSE /\ ego_translation[t] =
                        <<agent[t][1].centroid[1], agent[t][1].centroid[2],
                          history_frames[1].ego_translation[3]>>
                 /\ ego_yaw[t] = agent[t][1].yaw

\* one call took the ego pose while another took the pose of an agent away
\* from the ego
C1_Witness ==
    \E t, u \in Threads :
        /\ pc[t] = "done" /\ agent[t] = <<>>
        /\ pc[u] = "done" /\ agent[u] # <<>>
        /\ ego_translation[u] # ego_translation[t]
        /\ ego_yaw[u] # ego_yaw[t]

\* the scenario of the specification: raster 224 x 224, pixels of 0.5 m, ego
\* centre (0.25, 0.5), pose (100, 200, 10), yaw 0, identity calibration
ExampleEngine ==
    SatelliteRasterizer_init(<<224, 224>>, <<Half, Half>>, <<Quarter, Half>>, <<>>, CalibIdentity, "INTER_LINEAR")

ExamplePose == <<R(100), R(200), R(10)>>

ExampleTransform == BuildTransform(ExampleEngine, ExamplePose, 0)

ExampleCropCentre ==
    SatTranslation(ExampleEngine,
                   transform_point(CenterPixel(ExampleEngine), linalg_inv(ExampleTransform).value),
                   ExamplePose)

\* C2: the crop centre is the calibration image of (the world point that the
\* world-to-raster transform sends to the raster centre raster_size / 2, the
\* pose's z).  For yaw 0 that world point is the pose moved by
\* pixel_size * raster_size * (1/2 - ego_center) along each axis; it is the
\* pose position exactly when ego_center = (1/2, 1/2).  In the example the
\* centre is (128, 200).
C2_CropCentreIsRasterCentre ==
    /\ \A t \in Threads :
          sat_translation[t] # <<>> =>
             LET w == world_translation[t]
                 pose == ego_translation[t]
                 shift(i) == RMul(RMul(self.pixel_size[i], R(self.raster_size[i])),
                                  RSub(Half, self.ego_center[i]))
             IN  /\ transform_point(w, world_to_image_space[t]) =
                        <<RDiv(R(self.raster_size[1]), R(2)), RDiv(R(self.raster_size[2]), R(2))>>
                 /\ sat_translation[t] =
                        transform_point(<<w[1], w[2], pose[3]>>, self.map_to_sat)
                 /\ ego_yaw[t] % 4 = 0 =>
                        w = <<RAdd(pose[1], shift(1)), RAdd(pose[2], shift(2))>>
                 /\ (w = <<pose[1], pose[2]>>) <=> (self.ego_center = <<Half, Half>>)
    /\ <<ExampleCropCentre[1], ExampleCropCentre[2]>> = <<R(128), R(200)>>

\* a call with yaw 0 on an engine whose ego centre is off the raster centre
\* has computed its crop centre
C2_Witness ==
    \E t \in Threads :
        /\ sat_translation[t] # <<>>
        /\ ego_yaw[t] = 0
        /\ self.ego_center # <<Half, Half>>
        /\ world_translation[t] # <<ego_translation[t][1], ego_translation[t][2]>>

\* the agent record sits on the ego pose of history_frames[0]
OnEgoPose(a) ==
    /\ a.centroid = <<history_frames[1].ego_translation[1], history_frames[1].ego_translation[2]>>
    /\ a.yaw = rotation33_as_yaw(history_frames[1].ego_rotation)

\* C3: on one engine and one history, a call with an agent that has the 2D
\* position and the yaw of history_frames[0]'s ego returns what the call
\* without an agent returns.
C3_AgentOnEgoPoseSameOutput ==
    \A t, u \in Threads :
        (/\ Ended(t) /\ Ended(u)
         /\ agent[t] = <<>>
         /\ agent[u] # <<>>
         /\ OnEgoPose(agent[u][1]))
        => ret[t] = ret[u]

\* both calls returned an image, on an engine whose calibration reads z, from
\* an ego at elevation 1
C3_Witness ==
    \E t, u \in Threads :
        /\ pc[t] = "done" /\ pc[u] = "done"
        /\ agent[t] = <<>>
        /\ agent[u] # <<>>
        /\ OnEgoPose(agent[u][1])
        /\ self.map_to_sat = CalibTilted
        /\ history_frames[1].ego_translation[3] = R(1)

Channels(im) == {<<i, j, c>> : i \in 1..Len(im), j \in 1..Len(im[1]), c \in 1..3}

\* n is the integer part of the float32 y, 0 <= y < 256
IsIntegerPartOf(n, y) ==
    IF y.m = 0 \/ y.e > 24 THEN n = 0
    ELSE n * 2^y.e <= y.m /\ y.m < (n + 1) * 2^y.e

\* to_rgb undoes the normalization of every 8-bit value
RoundTrip8Bit ==
    \A v \in 0..255 : to_rgb(Normalize(<<<<<<v, v, v>>>>>>)) = <<<<<<v, v, v>>>>>>

\* C4 as stated: to_rgb(x) = round(x * 255) for every x in [0, 1]
C4_ToRgbRounds ==
    \A t \in Threads :
        rgb_out[t] # <<>> =>
            \A p \in Channels(rgb_in[t]) :
                rgb_out[t][p[1]][p[2]][p[3]] = F32RoundInt(F32Mul255(rgb_in[t][p[1]][p[2]][p[3]]))

\* C4, amended: to_rgb(x) is the integer part of the float32 product x * 255
\* (truncation, not rounding); applied to the normalized form v / 255 of an
\* 8-bit value v it returns v, so to_rgb of a returned image is the flipped
\* raw crop.
C4_ToRgbTruncates ==
    /\ \A t \in Threads :
          rgb_out[t] # <<>> =>
             /\ \A p \in Channels(rgb_in[t]) :
                   /\ F32InUnit(rgb_in[t][p[1]][p[2]][p[3]])
                   /\ IsIntegerPartOf(rgb_out[t][p[1]][p[2]][p[3]],
                                      F32Mul255(rgb_in[t][p[1]][p[2]][p[3]]))
             /\ ret[t].image # <<>> => rgb_out[t] = FlipRows(sat_im[t])
    /\ RoundTrip8Bit

\* to_rgb has been applied to a returned image and to an array holding 1/2
C4_Witness ==
    \E t, u \in Threads :
        /\ pc[t] = "shown" /\ ret[t].image # <<>> /\ rgb_in[t] = ret[t].image
        /\ pc[u] = "shown" /\ rgb_in[u][1][1][1] = F32Of(1, 1)
        /\ rgb_out[u][1][1][1] = 127

\* C5 as stated: whenever the image key or the metadata key cannot be
\* resolved, the image cannot be decoded or the metadata is invalid, the load
\* fails with FileNotFoundError and returns no pair.
C5_LoadFailsNotFound ==
    loaded # <<>> =>
        ((\/ ImageKey \notin loaded[1].files
          \/ MetadataKey(ImageKey) \notin loaded[1].files
          \/ ~loaded[1].decodable
          \/ ~loaded[1].json_valid)
         => /\ loaded[1].result.raised = "FileNotFoundError"
            /\ loaded[1].result.image = <<>>
            /\ loaded[1].result.metadata = <<>>)

\* C6: after construction every field of the engine keeps its construction
\* value through all rasterize and to_rgb calls, and the cached
\* map_pixel_scale is the scale derived from the engine's map_to_sat.
C6_EngineUnchanged ==
    engine # <<>> =>
        /\ self = Built
        /\ self = [raster_size |-> ctor[1].raster_size, pixel_size |-> ctor[1].pixel_size,
                   ego_center |-> ctor[1].ego_center, map_im |-> ctor[1].map_im,
                   map_to_sat |-> ctor[1].map_to_sat, interpolation |-> ctor[1].interpolation,
                   map_pixel_scale |-> self.map_pixel_scale]
        /\ self.map_pixel_scale = MapPixelScale(self.map_to_sat)

\* a thread went through rasterize and to_rgb while the other returned from
\* rasterize
C6_Witness ==
    \E t, u \in Threads :
        /\ t # u
        /\ pc[t] = "shown" /\ ret[t].image # <<>>
        /\ pc[u] = "done"
        /\ failed_before = [x \in Threads |-> FALSE]

\* C7: under every interleaving of the calls of the threads, a call ends
\* with the result that one call alone gives on the constructed engine with
\* the same arguments.
C7_ConcurrentCallsIndependent ==
    \A t \in Threads :
        Ended(t) => ret[t] = rasterize(Built, history_frames, history_agents, agent[t])

\* two calls with different agent arguments ended with different images
C7_Witness ==
    \E t, u \in Threads :
        /\ pc[t] = "done" /\ pc[u] = "done"
        /\ agent[t] # agent[u]
        /\ ret[t].image # ret[u].image

\* a singular transform raises LinAlgError out of line 99: nothing is
\* cropped, nothing is returned, and no step after line 99 is ever reached
\* with a singular transform
SingularRaises ==
    \A t \in Threads :
        /\ pc[t] = "raised" =>
              /\ Det3(world_to_image_space[t])[1] = 0
              /\ ret[t] = [raised |-> "LinAlgError", image |-> <<>>]
              /\ crop_calls[t] = <<>>
              /\ sat_im[t] = <<>>
              /\ world_translation[t] = <<>>
        /\ (world_to_image_space[t] # <<>> /\ Det3(world_to_image_space[t])[1] = 0) =>
              pc[t] \in {"l98", "raised"}

\* C8 as stated: a singular transform raises, and a later rasterize call on
\* the same engine succeeds.
C8_LaterCallSucceeds ==
    /\ SingularRaises
    /\ \A t \in Threads : (failed_before[t] /\ Ended(t)) => pc[t] = "done"

\* C8, amended: a singular transform raises out of rasterize with nothing
\* cropped and nothing returned, the engine is left as constructed, and,
\* the singularity coming from the engine's pixel_size and not from the
\* pose, every later call on that engine raises in the same way.
C8_SingularPropagates ==
    /\ SingularRaises
    /\ engine # <<>> => self = Built
    /\ \A t, u \in Threads : (failed_before[t] /\ Ended(u)) => pc[u] = "raised"
    /\ \A t \in Threads :
          pc[t] = "raised" => Recip(self.pixel_size[1]) = R(0) \/ Recip(self.pixel_size[2]) = R(0)

\* a call raised on an engine on which an earlier call had raised
C8_Witness ==
    \E t \in Threads : failed_before[t] /\ pc[t] = "raised"

\* the yaw of the pose the call's arguments select
PoseYaw(t) ==
    IF agent[t] = <<>> THEN rotation33_as_yaw(history_frames[1].ego_rotation)
    ELSE agent[t][1].yaw

\* C9: a call that returns an image has called the crop primitive exactly
\* once, after the crop centre was computed, with that centre, the negated
\* yaw of the pose, and the engine's map_im, raster_size, pixel_size,
\* map_pixel_scale and interpolation.
C9_OneCropCall ==
    \A t \in Threads :
        /\ pc[t] \in {"l88", "l98", "l100", "l104"} => crop_calls[t] = <<>>
        /\ pc[t] \in {"l115", "done"} =>
              /\ Len(crop_calls[t]) = 1
              /\ sat_translation[t] # <<>>
              /\ crop_calls[t][1] =
                    [sat_image |-> self.map_im,
                     crop_size |-> self.raster_size,
                     sat_pixel_translation |-> sat_translation[t],
                     yaw |-> 0 - PoseYaw(t),
                     pixel_size |-> self.pixel_size,
                     sat_pixel_scale |-> self.map_pixel_scale,
                     interpolation |-> self.interpolation]

\* calls with an ego yaw and with an agent yaw of a quarter turn returned
C9_Witness ==
    \E t, u \in Threads :
        /\ pc[t] = "done" /\ agent[t] = <<>> /\ ego_yaw[t] = 1
        /\ pc[u] = "done" /\ agent[u] # <<>> /\ ego_yaw[u] = 2
        /\ crop_calls[u][1].yaw = -2

\* C10: the returned image is the raw crop with its rows reversed and every
\* channel value divided by 255: output row i is raw row H + 1 - i (rows
\* counted from 1), columns and channels in place, every value in [0, 1].
C10_FlippedAndNormalized ==
    \A t \in Threads :
        pc[t] = "done" =>
            LET raw == sat_im[t]
                out == ret[t].image
                H == Len(raw)
            IN  /\ H = self.raster_size[2]
                /\ Len(out) = H
                /\ \A i \in 1..H :
                      /\ Len(out[i]) = Len(raw[H + 1 - i])
                      /\ \A j \in 1..Len(out[i]) : \A c \in 1..3 :
                            /\ out[i][j][c] = F32Div255(raw[H + 1 - i][j][c])
                            /\ F32InUnit(out[i][j][c])

\* a call returned the flip of a raw crop whose rows and whose columns are not
\* symmetric
C10_Witness ==
    \E t \in Threads :
        /\ pc[t] = "done"
        /\ FlipRows(sat_im[t]) # sat_im[t]
        /\ FlipCols(sat_im[t]) # sat_im[t]
        /\ FlipRows(sat_im[t]) # FlipCols(sat_im[t])

====
